---------------------------- MODULE Spec2Model ----------------------------
(***************************************************************************)
(* A model of the Hyperliquid OpenAPI update job (update.ts): the schema   *)
(* name resolver, the OpenAPI assembler, the SUMMARY.md table-of-contents  *)
(* updater and the GitBook publisher.                                      *)
(*                                                                         *)
(* JavaScript strings that the code inspects or builds character by        *)
(* character (slugs, type names, the SUMMARY.md text) are sequences of     *)
(* one-character strings; the backquote character, which a TLA+ string     *)
(* cannot hold, is the atom "BACKTICK".                                    *)
(***************************************************************************)
EXTENDS Integers, Sequences, FiniteSets, TLC

VARIABLES
    \* ---- updateGitBookOpenAPIs and the remote documentation host
    openapiSpecs,    \* the assembled map: endpoint -> (method -> document)
    remote,          \* the host's entries: slug -> stored text
    remote0,         \* the host's entries when the run started
    listing,         \* the order in which the host lists its entries
    pc,              \* where the publisher is: start, list, delete, put, done, failed
    specs,           \* const specs: the local {slug, text} list, sorted by slug
    allRemoteSpecs,  \* items collected from the listing pages
    nextPage,        \* the cursor of the next page, or Undefined
    pageCount,       \* pages requested so far
    responses,       \* the listing responses received so far, in order
    delIdx,          \* position of the delete loop in remoteSlugs
    putIdx,          \* position of the upload loop in specs
    calls,           \* every fetch() issued so far, in order, with its status
    logged,          \* the per-slug console lines: Deleted, Updated, Uploaded
    thrown,          \* the Error thrown, if any: <<>> or <<error>>
    \* ---- updateSummary and SUMMARY.md
    summary,         \* the text of SUMMARY.md
    summary0,        \* the text of SUMMARY.md before the first run
    written,         \* the text each run of updateSummary wrote, in order
    tocThrown,       \* the Error updateSummary threw, if any: <<>> or <<message>>
    \* ---- getAllSchemas and extractFunctionSchema
    schemasPc,       \* where getAllSchemas is: idle, loop, extracted, done, failed
    endpointIdx,     \* position of the outer loop in endpoints
    methodIdx,       \* position of the inner loop in methods
    docNodes,        \* the symbol table extractFunctionSchema loaded for the method
    functionInfo,    \* what extractFunctionSchema returned: <<>> or <<result>>
    results,         \* const results: endpoint -> (method -> schemas)
    skipLog,         \* the methods logged as skipped, in order
    schemasThrown,   \* the Error thrown out of getAllSchemas: <<>> or <<error>>
    \* ---- the response name normalization on its own
    responseName,    \* a response type name
    normalized,      \* the results of normalizing it again and again, in order
    \* ---- jsonSchemasToOpenAPIs
    schemas,         \* the AllSchemas map handed to the assembler
    asmPc,           \* where the assembler is: idle, start, done
    \* ---- main
    mainPc,          \* where main is: idle, start, schemas, assemble, summary,
                     \* publish, done, failed
    envSet           \* whether GITBOOK_TOKEN and GITBOOK_ORG_ID are both set

pubVars ==
    <<openapiSpecs, remote, remote0, listing, pc, specs, allRemoteSpecs, nextPage,
      pageCount, responses, delIdx, putIdx, calls, logged, thrown>>

tocVars ==
    <<summary, summary0, written, tocThrown>>

schemasVars ==
    <<schemasPc, endpointIdx, methodIdx, docNodes, functionInfo, results, skipLog,
      schemasThrown>>

normVars ==
    <<responseName, normalized>>

asmVars ==
    <<schemas, asmPc>>

mainVars ==
    <<mainPc, envSet>>

vars ==
    <<pubVars, tocVars, schemasVars, normVars, asmVars, mainVars>>

\* What each part of the job leaves alone.
notPubVars ==
    <<tocVars, schemasVars, normVars, asmVars, mainVars>>

notSchemasVars ==
    <<pubVars, tocVars, normVars, asmVars, mainVars>>

notNormVars ==
    <<pubVars, tocVars, schemasVars, asmVars, mainVars>>

\* The publisher's variables but the map it is given.
pubOwnVars ==
    <<remote, remote0, listing, pc, specs, allRemoteSpecs, nextPage, pageCount, responses,
      delIdx, putIdx, calls, logged, thrown>>

notAsmVars ==
    <<pubOwnVars, tocVars, schemasVars, normVars, mainVars>>

notTocVars ==
    <<pubVars, schemasVars, normVars, asmVars, mainVars>>

-----------------------------------------------------------------------------
(* Bounds of the model.                                                    *)

\* The host answers a listing in at most this many pages.
MaxPages == 3

\* SUMMARY.md is made of at most this many pieces of DocumentPieces.
MaxPieces == 4

\* updateSummary runs at most this many times on the same file.
MaxRuns == 2

\* A symbol table holds at most this many nodes that carry the name of the
\* function: its overloads and other declarations of that name.
MaxOverloads == 2

\* The host lists at most this many entries a second time.
MaxRepeats == 1

\* A response type name is made of at most this many pieces of NameChunks.
MaxChunks == 4

-----------------------------------------------------------------------------
(* JavaScript values and string primitives.                                *)

\* undefined; no character sequence equals it.
Undefined ==
    <<"undefined">>

\* Mutant: no value is taken for truthy.
TruthyNever(v) ==
    FALSE

\* JavaScript truthiness of a string-or-undefined value.
Truthy(v) ==
    v # Undefined /\ v # <<>>

CodeUnit ==
    "\n" :> 10 @@ " " :> 32 @@ "#" :> 35 @@ "-" :> 45 @@ "." :> 46 @@ "/" :> 47 @@ ":" :> 58 @@
    "_" :> 95 @@ "0" :> 48 @@ "1" :> 49 @@ "2" :> 50 @@ "3" :> 51 @@ "4" :> 52 @@ "5" :> 53 @@
    "6" :> 54 @@ "7" :> 55 @@ "8" :> 56 @@ "9" :> 57 @@ "A" :> 65 @@ "B" :> 66 @@ "C" :> 67 @@
    "D" :> 68 @@ "E" :> 69 @@ "F" :> 70 @@ "G" :> 71 @@ "H" :> 72 @@ "I" :> 73 @@ "J" :> 74 @@
    "K" :> 75 @@ "L" :> 76 @@ "M" :> 77 @@ "N" :> 78 @@ "O" :> 79 @@ "P" :> 80 @@ "Q" :> 81 @@
    "R" :> 82 @@ "S" :> 83 @@ "T" :> 84 @@ "U" :> 85 @@ "V" :> 86 @@ "W" :> 87 @@ "X" :> 88 @@
    "Y" :> 89 @@ "Z" :> 90 @@ "BACKTICK" :> 96 @@ "a" :> 97 @@ "b" :> 98 @@ "c" :> 99 @@
    "d" :> 100 @@ "e" :> 101 @@ "f" :> 102 @@ "g" :> 103 @@ "h" :> 104 @@ "i" :> 105 @@
    "j" :> 106 @@ "k" :> 107 @@ "l" :> 108 @@ "m" :> 109 @@ "n" :> 110 @@ "o" :> 111 @@
    "p" :> 112 @@ "q" :> 113 @@ "r" :> 114 @@ "s" :> 115 @@ "t" :> 116 @@ "u" :> 117 @@
    "v" :> 118 @@ "w" :> 119 @@ "x" :> 120 @@ "y" :> 121 @@ "z" :> 122

UpperOf ==
    "a" :> "A" @@ "b" :> "B" @@ "c" :> "C" @@ "d" :> "D" @@ "e" :> "E" @@ "f" :> "F" @@
    "g" :> "G" @@ "h" :> "H" @@ "i" :> "I" @@ "j" :> "J" @@ "k" :> "K" @@ "l" :> "L" @@
    "m" :> "M" @@ "n" :> "N" @@ "o" :> "O" @@ "p" :> "P" @@ "q" :> "Q" @@ "r" :> "R" @@
    "s" :> "S" @@ "t" :> "T" @@ "u" :> "U" @@ "v" :> "V" @@ "w" :> "W" @@ "x" :> "X" @@
    "y" :> "Y" @@ "z" :> "Z"

\* String.prototype.toUpperCase on one character.
ToUpperCase(c) ==
    IF c \in DOMAIN UpperOf THEN UpperOf[c] ELSE c

\* String.prototype.startsWith.
StartsWith(s, p) ==
    /\ Len(p) <= Len(s)
    /\ SubSeq(s, 1, Len(p)) = p

\* String.prototype.endsWith.
EndsWith(s, p) ==
    /\ Len(p) <= Len(s)
    /\ SubSeq(s, Len(s) - Len(p) + 1, Len(s)) = p

\* Whether p occurs in s at the 0-based position i.
OccursAt(s, p, i) ==
    \A k \in 1..Len(p) : s[i + k] = p[k]

\* String.prototype.indexOf(p, from), 0-based; -1 when p does not occur.
IndexOf(s, p, from) ==
    LET hits == {i \in from..(Len(s) - Len(p)) : OccursAt(s, p, i)}
    IN  IF hits = {} THEN -1 ELSE CHOOSE i \in hits : \A j \in hits : i <= j

\* String.prototype.slice(from, to), 0-based, to exclusive.
Slice(s, from, to) ==
    SubSeq(s, from + 1, to)

\* Whether a character is an upper-case letter.
IsUpperCase(c) ==
    CodeUnit[c] \in 65..90

\* Primary collation weight of a character of a slug (letters, digits, "-"):
\* letters compare without their case, after the digits and the hyphen.
PrimaryWeight(c) ==
    IF IsUpperCase(c) THEN CodeUnit[c] + 32 ELSE CodeUnit[c]

\* Three-way comparison of two numbers.
Sign(x, y) ==
    IF x < y THEN -1 ELSE IF x > y THEN 1 ELSE 0

\* The comparison Array.prototype.sort() uses by default: UTF-16 code units,
\* first difference first, a proper prefix before its extensions.
RECURSIVE CodeUnitCompareFrom(_, _, _)
CodeUnitCompareFrom(a, b, i) ==
    IF i > Len(a) \/ i > Len(b) THEN Sign(Len(a), Len(b))
    ELSE IF CodeUnit[a[i]] # CodeUnit[b[i]] THEN Sign(CodeUnit[a[i]], CodeUnit[b[i]])
    ELSE CodeUnitCompareFrom(a, b, i + 1)

CodeUnitCompare(a, b) ==
    CodeUnitCompareFrom(a, b, 1)

RECURSIVE PrimaryCompareFrom(_, _, _)
PrimaryCompareFrom(a, b, i) ==
    IF i > Len(a) \/ i > Len(b) THEN Sign(Len(a), Len(b))
    ELSE IF PrimaryWeight(a[i]) # PrimaryWeight(b[i])
         THEN Sign(PrimaryWeight(a[i]), PrimaryWeight(b[i]))
    ELSE PrimaryCompareFrom(a, b, i + 1)

\* Between strings equal in their primary weights: lower case first.
RECURSIVE CaseCompareFrom(_, _, _)
CaseCompareFrom(a, b, i) ==
    IF i > Len(a) \/ i > Len(b) THEN 0
    ELSE IF IsUpperCase(a[i]) # IsUpperCase(b[i])
         THEN (IF IsUpperCase(b[i]) THEN -1 ELSE 1)
    ELSE CaseCompareFrom(a, b, i + 1)

\* String.prototype.localeCompare on slugs: primary weights decide; case
\* breaks a tie.
LocaleCompare(a, b) ==
    LET primary == PrimaryCompareFrom(a, b, 1)
    IN  IF primary # 0 THEN primary ELSE CaseCompareFrom(a, b, 1)

-----------------------------------------------------------------------------
(* Names.                                                                  *)

ReservedPrefix ==
    <<"h", "l", "-">>

EpInfo ==
    <<"i", "n", "f", "o">>

EpExchange ==
    <<"e", "x", "c", "h", "a", "n", "g", "e">>

\* type Endpoint = "info" | "exchange"
Endpoints ==
    {EpInfo, EpExchange}

MAllMids ==
    <<"a", "l", "l", "M", "i", "d", "s">>

MMeta ==
    <<"m", "e", "t", "a">>

MOrder ==
    <<"o", "r", "d", "e", "r">>

MObsoleteOp ==
    <<"o", "b", "s", "o", "l", "e", "t", "e", "O", "p">>

\* The methods an assembled map may hold, per endpoint.
MethodsOf(endpoint) ==
    IF endpoint = EpInfo THEN {MAllMids, MMeta} ELSE {MOrder}

\* `hl-${section}-${name}`
Slug(section, name) ==
    ReservedPrefix \o section \o <<"-">> \o name

\* Entries the remote host may hold when a run starts: one the job also
\* holds locally, one it no longer holds, and two that are not the job's.
RemoteUniverse ==
    { Slug(EpInfo, MAllMids),
      Slug(EpInfo, MObsoleteOp),
      <<"g", "u", "i", "d", "e">>,
      <<"x", "h", "l", "-", "a">> }

\* The text an entry holds before the run touches it.
StaleText ==
    <<"stale">>

-----------------------------------------------------------------------------
(* jsonSchemasToOpenAPIs: the document of one method.                      *)

\* convert() of @openapi-contrib/json-schema-to-openapi-schema.
Convert(schema) ==
    [openapiSchema |-> schema]

\* x || ""
OrEmpty(x) ==
    IF Truthy(x) THEN x ELSE <<>>

\* Mutant: the "500" entry is spread into the responses of both endpoints.
InfoOnlyResponsesAlways(endpoint) ==
    "500" :> [ description |-> "Internal Server Error",
               content |-> [mediaType |-> "application/json", schema |-> "null"] ]

\* The "500" entry, spread into the responses of the info endpoint only.
InfoOnlyResponses(endpoint) ==
    IF endpoint = EpInfo
    THEN "500" :> [ description |-> "Internal Server Error",
                    content |-> [mediaType |-> "application/json", schema |-> "null"] ]
    ELSE <<>>

BuildSpec(endpoint, method, request, response) ==
    [ openapi |-> "3.1.1",
      info    |-> [ title   |-> <<"H", "y", "p", "e", "r", "l", "i", "q", "u", "i", "d", " ",
                                  "A", "P", "I", " ", "-", " ">> \o endpoint \o <<"/">> \o method,
                    version |-> "1.0.0" ],
      servers |-> << [url |-> "https://api.hyperliquid.xyz", description |-> "Mainnet"],
                     [url |-> "https://api.hyperliquid-testnet.xyz", description |-> "Testnet"] >>,
      tags    |-> << [name |-> method, xPageTitle |-> method, xPageSlug |-> method] >>,
      paths   |-> (<<"/">> \o endpoint) :> [ post |->
                  [ tags        |-> <<method>>,
                    description |-> OrEmpty(request.description),
                    requestBody |-> [ content  |-> [mediaType |-> "application/json",
                                                    schema |-> Convert(request)],
                                      required |-> TRUE ],
                    responses   |->
                        ( "200" :> [ description |-> OrEmpty(response.description),
                                     content |-> [mediaType |-> "application/json",
                                                  schema |-> Convert(response)] ]
                          @@
                          "422" :> [ description |->
                                       "Failed to deserialize the JSON body into the target type",
                                     content |-> [mediaType |-> "text/plain",
                                                  schema |-> "string"] ]
                          @@
                          InfoOnlyResponses(endpoint) ) ] ] ]

\* A JSON Schema as far as the job reads it: its description, if any.
PlainSchema ==
    [description |-> Undefined]

\* The assembled maps a run may be given: any set of methods per endpoint.
AssembledMaps ==
    { [e \in Endpoints |-> [m \in ms[e] |-> BuildSpec(e, m, PlainSchema, PlainSchema)]] :
        ms \in { f \in [Endpoints -> SUBSET (MethodsOf(EpInfo) \cup MethodsOf(EpExchange))] :
                    \A e \in Endpoints : f[e] \subseteq MethodsOf(e) } }

\* The JSON Schemas the assembler may be handed: without a description, with
\* an empty one, with one.
SchemaUniverse ==
    { [description |-> Undefined],
      [description |-> <<>>],
      [description |-> <<"d">>] }

\* The AllSchemas maps the assembler may be handed: both endpoints, any set
\* of methods per endpoint, any pair of schemas per method.
SchemaMaps ==
    { [e \in Endpoints |-> IF e = EpInfo THEN i ELSE x] :
        i \in UNION { [ms -> [request : SchemaUniverse, response : SchemaUniverse]] :
                        ms \in SUBSET MethodsOf(EpInfo) },
        x \in UNION { [ms -> [request : SchemaUniverse, response : SchemaUniverse]] :
                        ms \in SUBSET MethodsOf(EpExchange) } }

\* The result of jsonSchemasToOpenAPIs: { info: {}, exchange: {} } with one
\* document stored per method of each endpoint of the map it is given.
Assemble(map) ==
    [e \in Endpoints |->
        IF e \in DOMAIN map
        THEN [m \in DOMAIN map[e] |-> BuildSpec(e, m, map[e][m].request, map[e][m].response)]
        ELSE <<>>]

InitAssembler ==
    /\ schemas \in SchemaMaps
    /\ asmPc = "start"

\* The assembler before it is called, and in the runs that do not call it.
IdleAssembler ==
    /\ schemas = <<>>
    /\ asmPc = "idle"

\* jsonSchemasToOpenAPIs(schemas)
JsonSchemasToOpenAPIs ==
    /\ asmPc = "start"
    /\ openapiSpecs' = Assemble(schemas)
    /\ asmPc' = "done"
    /\ UNCHANGED schemas
    /\ UNCHANGED notAsmVars

\* main before it starts, and in the runs of one part of the job.
IdleMain ==
    /\ mainPc = "idle"
    /\ envSet = TRUE

-----------------------------------------------------------------------------
(* updateGitBookOpenAPIs: the local specs and the slug filters.            *)

\* url.searchParams.set("limit", "1000")
ListLimit == 1000

\* JSON.stringify(spec)
Stringify(spec) ==
    <<"json", spec>>

\* Object.entries(openapiSpecs).flatMap(...): one {slug, text} per method.
LocalEntries(specsMap) ==
    UNION { { [slug |-> Slug(e, m), text |-> Stringify(specsMap[e][m])] :
                m \in DOMAIN specsMap[e] } : e \in DOMAIN specsMap }

\* .sort((a, b) => a.slug.localeCompare(b.slug))
RECURSIVE SortBySlug(_)
SortBySlug(entries) ==
    IF entries = {} THEN <<>>
    ELSE LET first == CHOOSE x \in entries :
                          \A y \in entries : LocaleCompare(x.slug, y.slug) <= 0
         IN  <<first>> \o SortBySlug(entries \ {first})

\* const specs = ... : the local specs, sorted by slug.
Specs(specsMap) ==
    SortBySlug(LocalEntries(specsMap))

\* Mutant: the early return is never taken.
NoSpecsNever(list) ==
    FALSE

\* if (specs.length === 0) return;
NoSpecs(list) ==
    Len(list) = 0

\* const localSlugs = new Set(specs.map((s) => s.slug))
LocalSlugs(list) ==
    {list[i].slug : i \in 1..Len(list)}

\* Mutant: slug.includes("hl-") in place of startsWith.
ContainsReservedPrefix(slug) ==
    IndexOf(slug, ReservedPrefix, 0) # -1

\* slug.startsWith("hl-")
HasReservedPrefix(slug) ==
    StartsWith(slug, ReservedPrefix)

\* const remoteSlugs = allRemoteSpecs.map((item) => item.slug).filter(...)
RemoteSlugs(items) ==
    SelectSeq([i \in 1..Len(items) |-> items[i].slug], HasReservedPrefix)

\* Mutant: the test of the delete loop inverted (localSlugs.has(slug)).
NextOrphanInverted(slugs, localSlugs, from) ==
    LET found == {i \in from..Len(slugs) : slugs[i] \in localSlugs}
    IN  IF found = {} THEN 0 ELSE CHOOSE i \in found : \A j \in found : i <= j

\* Mutant: the delete loop breaks at the first slug it keeps.
NextOrphanBreaking(slugs, localSlugs, from) ==
    IF from <= Len(slugs) /\ slugs[from] \notin localSlugs THEN from ELSE 0

\* The delete loop's next stop: the first position at or after `from` whose
\* slug is not a local one (!localSlugs.has(slug)); 0 when the loop runs out.
NextOrphan(slugs, localSlugs, from) ==
    LET orphans == {i \in from..Len(slugs) : slugs[i] \notin localSlugs}
    IN  IF orphans = {} THEN 0 ELSE CHOOSE i \in orphans : \A j \in orphans : i <= j

\* Mutant: every upload is taken for an update.
IsUpdateAlways(slugs, slug) ==
    TRUE

\* const isUpdate = remoteSlugs.includes(slug)
IsUpdate(slugs, slug) ==
    \E i \in 1..Len(slugs) : slugs[i] = slug

-----------------------------------------------------------------------------
(* The remote documentation host, as the REST interface describes it.      *)

\* The statuses the host answers with; Response.ok is a status in 200..299.
Statuses ==
    {200, 500}

\* Mutant: only a missing response counts as a failure.
ResponseOkLoose(status) ==
    status \in 200..599

ResponseOk(status) ==
    status \in 200..299

\* The body of a response with this status.
ResponseBody(status) ==
    <<"body", status>>

DecimalDigits ==
    <<"0", "1", "2", "3", "4", "5", "6", "7", "8", "9">>

\* The cursor that names the page starting at position `offset` of the listing.
Cursor(offset) ==
    <<"p", DecimalDigits[offset + 1]>>

\* The position a page request starts at: the first, unless a cursor is sent.
OffsetOf(cursor) ==
    IF cursor = Undefined THEN 1
    ELSE CHOOSE offset \in 1..9 : Cursor(offset) = cursor

\* The sizes the host may give the page that starts at `offset`: the whole
\* rest of its listing or, while it may still send more pages, a part of it.
PageSizes(entries, offset, pagesSent) ==
    LET rest == Len(entries) - offset + 1
    IN  IF rest = 0 THEN {0}
        ELSE IF pagesSent + 1 >= MaxPages THEN {rest}
        ELSE 1..rest

\* GET /orgs/{orgId}/openapi?limit=1000&page={cursor} -> {items, next?: {page}}
ListResponse(entries, cursor, size) ==
    LET offset == OffsetOf(cursor)
    IN  [ items |-> [i \in 1..size |-> [slug |-> entries[offset + i - 1]]],
          next  |-> IF offset + size <= Len(entries)
                    THEN Cursor(offset + size) ELSE Undefined ]

\* DELETE /orgs/{orgId}/openapi/{slug}
AfterDelete(store, slug) ==
    [s \in DOMAIN store \ {slug} |-> store[s]]

\* PUT /orgs/{orgId}/openapi/{slug} with {source: {text}}
AfterPut(store, slug, text) ==
    [s \in DOMAIN store \cup {slug} |-> IF s = slug THEN text ELSE store[s]]

\* All orders in which the host may list the entries it holds, each once.
Listings(slugs) ==
    { l \in [1..Cardinality(slugs) -> slugs] : \A i, j \in 1..Cardinality(slugs) :
                                                   l[i] = l[j] => i = j }

\* All orders in which a host may list the entries it holds when it may list
\* some of them more than once.
RepeatedListings(slugs) ==
    { l \in UNION { [1..n -> slugs] :
                       n \in Cardinality(slugs)..(Cardinality(slugs) + MaxRepeats) } :
        \A s \in slugs : \E i \in DOMAIN l : l[i] = s }

-----------------------------------------------------------------------------
(* updateGitBookOpenAPIs: the run.                                         *)

\* One fetch(): the request and the status of its response. A GET carries the
\* limit and, after the first page, the cursor; a PUT carries the spec's text.
CallRecord(method, slug, page, text, status) ==
    [method |-> method, slug |-> slug, page |-> page, text |-> text, status |-> status]

\* throw new Error(`... ${slug} (${res.status}): ${body}`)
ErrorOf(message, slug, status) ==
    [message |-> message, slug |-> slug, status |-> status, body |-> ResponseBody(status)]

InitPublisher ==
    /\ openapiSpecs \in AssembledMaps
    /\ remote0 \in UNION {[slugs -> {StaleText}] : slugs \in SUBSET RemoteUniverse}
    /\ remote = remote0
    /\ listing \in Listings(DOMAIN remote0)
    /\ pc = "start"
    /\ specs = <<>>
    /\ allRemoteSpecs = <<>>
    /\ nextPage = Undefined
    /\ pageCount = 0
    /\ responses = <<>>
    /\ delIdx = 1
    /\ putIdx = 1
    /\ calls = <<>>
    /\ logged = <<>>
    /\ thrown = <<>>

\* The publisher against a host that may list an entry more than once.
InitPublisherRepeating ==
    /\ openapiSpecs \in AssembledMaps
    /\ remote0 \in UNION {[slugs -> {StaleText}] : slugs \in SUBSET RemoteUniverse}
    /\ remote = remote0
    /\ listing \in RepeatedListings(DOMAIN remote0)
    /\ pc = "start"
    /\ specs = <<>>
    /\ allRemoteSpecs = <<>>
    /\ nextPage = Undefined
    /\ pageCount = 0
    /\ responses = <<>>
    /\ delIdx = 1
    /\ putIdx = 1
    /\ calls = <<>>
    /\ logged = <<>>
    /\ thrown = <<>>

\* The collection of the local specs when there is none: the early return.
ReturnEmpty ==
    /\ pc = "start"
    /\ specs' = Specs(openapiSpecs)
    /\ NoSpecs(specs')
    /\ pc' = "done"
    /\ UNCHANGED <<openapiSpecs, remote, remote0, listing, allRemoteSpecs, nextPage,
                   pageCount, responses, delIdx, putIdx, calls, logged, thrown>>
    /\ UNCHANGED notPubVars

\* One turn of the do ... while (nextPage) loop: a GET of the listing. The
\* first turn follows the collection of the local specs.
FetchList ==
    /\ pc \in {"start", "list"}
    /\ specs' = IF pc = "start" THEN Specs(openapiSpecs) ELSE specs
    /\ ~NoSpecs(specs')
    /\ \E status \in Statuses :
       \E size \in PageSizes(listing, OffsetOf(nextPage), pageCount) :
          LET page == IF Truthy(nextPage) THEN nextPage ELSE Undefined
              data == ListResponse(listing, page, size)
          IN  /\ pageCount' = pageCount + 1
              /\ calls' = Append(calls, CallRecord("GET", Undefined, <<ListLimit, page>>, Undefined, status))
              /\ IF ~ResponseOk(status)
                 THEN /\ thrown' = <<ErrorOf("Failed to list GitBook specs", Undefined, status)>>
                      /\ pc' = "failed"
                      /\ UNCHANGED <<allRemoteSpecs, nextPage, responses>>
                 ELSE /\ responses' = Append(responses, data)
                      /\ allRemoteSpecs' = allRemoteSpecs \o data.items
                      /\ nextPage' = data.next
                      /\ pc' = IF Truthy(data.next) THEN "list" ELSE "delete"
                      /\ UNCHANGED thrown
    /\ UNCHANGED <<openapiSpecs, remote, remote0, listing, delIdx, putIdx, logged>>
    /\ UNCHANGED notPubVars

\* One DELETE of the for (const slug of remoteSlugs) loop.
FetchDelete ==
    /\ pc = "delete"
    /\ LET remoteSlugs == RemoteSlugs(allRemoteSpecs)
           at          == NextOrphan(remoteSlugs, LocalSlugs(specs), delIdx)
       IN  /\ at # 0
           /\ \E status \in Statuses :
                 /\ calls' = Append(calls, CallRecord("DELETE", remoteSlugs[at], Undefined, Undefined, status))
                 /\ IF ~ResponseOk(status)
                    THEN /\ thrown' = <<ErrorOf("Delete failed for", remoteSlugs[at], status)>>
                         /\ pc' = "failed"
                         /\ UNCHANGED <<remote, delIdx, logged>>
                    ELSE /\ remote' = AfterDelete(remote, remoteSlugs[at])
                         /\ logged' = Append(logged, <<"Deleted", remoteSlugs[at]>>)
                         /\ delIdx' = at + 1
                         /\ UNCHANGED <<pc, thrown>>
    /\ UNCHANGED <<openapiSpecs, remote0, listing, specs, allRemoteSpecs, nextPage,
                   pageCount, responses, putIdx>>
    /\ UNCHANGED notPubVars

\* One PUT of the for (const { slug, text } of specs) loop; the first one
\* follows the end of the delete loop.
FetchPut ==
    /\ pc \in {"delete", "put"}
    /\ LET remoteSlugs == RemoteSlugs(allRemoteSpecs)
           spec        == specs[putIdx]
           isUpdate    == IsUpdate(remoteSlugs, spec.slug)
       IN  /\ pc = "delete" => NextOrphan(remoteSlugs, LocalSlugs(specs), delIdx) = 0
           /\ \E status \in Statuses :
                 /\ calls' = Append(calls, CallRecord("PUT", spec.slug, Undefined, spec.text, status))
                 /\ IF ~ResponseOk(status)
                    THEN /\ thrown' = <<ErrorOf(IF isUpdate THEN "Update failed for"
                                                            ELSE "Upload failed for",
                                                spec.slug, status)>>
                         /\ pc' = "failed"
                         /\ UNCHANGED <<remote, putIdx, logged>>
                    ELSE /\ remote' = AfterPut(remote, spec.slug, spec.text)
                         /\ logged' = Append(logged, <<IF isUpdate THEN "Updated" ELSE "Uploaded",
                                                       spec.slug>>)
                         /\ putIdx' = putIdx + 1
                         /\ pc' = IF putIdx + 1 > Len(specs) THEN "done" ELSE "put"
                         /\ UNCHANGED thrown
    /\ UNCHANGED <<openapiSpecs, remote0, listing, specs, allRemoteSpecs, nextPage,
                   pageCount, responses, delIdx>>
    /\ UNCHANGED notPubVars

NextPublisher ==
    \/ ReturnEmpty
    \/ FetchList
    \/ FetchDelete
    \/ FetchPut

\* The publisher before it is called, and in the runs that do not call it.
IdlePublisher ==
    /\ remote = <<>>
    /\ remote0 = <<>>
    /\ listing = <<>>
    /\ pc = "idle"
    /\ specs = <<>>
    /\ allRemoteSpecs = <<>>
    /\ nextPage = Undefined
    /\ pageCount = 0
    /\ responses = <<>>
    /\ delIdx = 1
    /\ putIdx = 1
    /\ calls = <<>>
    /\ logged = <<>>
    /\ thrown = <<>>

-----------------------------------------------------------------------------
(* updateSummary: the "## API" section of SUMMARY.md.                      *)

\* const apiHeader = "## API"
ApiHeader ==
    <<"#", "#", " ", "A", "P", "I">>

\* The mark of the next header: "\n## "
NextHeaderMark ==
    <<"\n", "#", "#", " ">>

\* The characters String.prototype.trimEnd removes, among those of the model.
WhiteSpace ==
    {" ", "\n", "\t"}

\* Mutant: the text is written without trimEnd().
TrimEndNone(s) ==
    s

\* String.prototype.trimEnd
RECURSIVE TrimEnd(_)
TrimEnd(s) ==
    IF s # <<>> /\ s[Len(s)] \in WhiteSpace
    THEN TrimEnd(SubSeq(s, 1, Len(s) - 1))
    ELSE s

\* str.charAt(0).toUpperCase() + str.slice(1)
Capitalize(str) ==
    IF str = <<>> THEN <<>> ELSE <<ToUpperCase(str[1])>> \o Tail(str)

\* Array.prototype.sort() of a set of distinct keys.
RECURSIVE SortKeys(_)
SortKeys(keys) ==
    IF keys = {} THEN <<>>
    ELSE LET first == CHOOSE x \in keys : \A y \in keys : CodeUnitCompare(x, y) <= 0
         IN  <<first>> \o SortKeys(keys \ {first})

\* The eleven lines pushed for one method.
MethodLines(section, method) ==
    << <<" ", " ", "-", " ", "BACKTICK", "BACKTICK", "BACKTICK", "y", "a", "m", "l">>,
       <<" ", " ", " ", " ", "t", "y", "p", "e", ":", " ", "b", "u", "i", "l", "t", "i", "n", ":",
         "o", "p", "e", "n", "a", "p", "i">>,
       <<" ", " ", " ", " ", "p", "r", "o", "p", "s", ":">>,
       <<" ", " ", " ", " ", " ", " ", "m", "o", "d", "e", "l", "s", ":", " ", "f", "a", "l", "s",
         "e">>,
       <<" ", " ", " ", " ", " ", " ", "d", "o", "w", "n", "l", "o", "a", "d", "L", "i", "n", "k",
         ":", " ", "f", "a", "l", "s", "e">>,
       <<" ", " ", " ", " ", "d", "e", "p", "e", "n", "d", "e", "n", "c", "i", "e", "s", ":">>,
       <<" ", " ", " ", " ", " ", " ", "s", "p", "e", "c", ":">>,
       <<" ", " ", " ", " ", " ", " ", " ", " ", "r", "e", "f", ":">>,
       <<" ", " ", " ", " ", " ", " ", " ", " ", " ", " ", "k", "i", "n", "d", ":", " ", "o", "p",
         "e", "n", "a", "p", "i">>,
       <<" ", " ", " ", " ", " ", " ", " ", " ", " ", " ", "s", "p", "e", "c", ":", " ">>
           \o Slug(section, method),
       <<" ", " ", " ", " ", "BACKTICK", "BACKTICK", "BACKTICK">> >>

\* The lines of every method of a sorted list, one block after the other.
RECURSIVE MethodsLines(_, _)
MethodsLines(section, methods) ==
    IF methods = <<>> THEN <<>>
    ELSE MethodLines(section, Head(methods)) \o MethodsLines(section, Tail(methods))

\* One turn of the loop over the sections: nothing for a section without
\* methods, else its heading, its methods and an empty line.
SectionLines(specsMap, section) ==
    LET methods == SortKeys(DOMAIN specsMap[section])
    IN  IF Len(methods) = 0 THEN <<>>
        ELSE << <<"-", " ">> \o Capitalize(section) >>
             \o MethodsLines(section, methods)
             \o << <<>> >>

RECURSIVE SectionsLines(_, _)
SectionsLines(specsMap, sections) ==
    IF sections = <<>> THEN <<>>
    ELSE SectionLines(specsMap, Head(sections)) \o SectionsLines(specsMap, Tail(sections))

\* const lines = ["## API", ""]; ...; lines.push("")
ApiLines(specsMap) ==
    << ApiHeader, <<>> >>
    \o SectionsLines(specsMap, SortKeys(DOMAIN specsMap))
    \o << <<>> >>

\* lines.join("\n")
RECURSIVE JoinLines(_)
JoinLines(lines) ==
    IF lines = <<>> THEN <<>>
    ELSE IF Len(lines) = 1 THEN lines[1]
    ELSE lines[1] \o <<"\n">> \o JoinLines(Tail(lines))

\* const start = summary.indexOf(apiHeader)
SectionStart(text) ==
    IndexOf(text, ApiHeader, 0)

\* const nextHeaderIndex = summary.indexOf("\n## ", start + apiHeader.length)
NextHeaderIndex(text) ==
    IndexOf(text, NextHeaderMark, SectionStart(text) + Len(ApiHeader))

\* const prefix = summary.slice(0, start)
SummaryPrefix(text) ==
    Slice(text, 0, SectionStart(text))

\* Mutant: the suffix taken one character late, without its line break.
SummarySuffixLate(text) ==
    LET nextHeaderIndex == NextHeaderIndex(text)
    IN  IF nextHeaderIndex = -1 THEN <<>>
        ELSE Slice(text, nextHeaderIndex + 1, Len(text))

\* const suffix = nextHeaderIndex === -1 ? "" : summary.slice(nextHeaderIndex)
SummarySuffix(text) ==
    LET nextHeaderIndex == NextHeaderIndex(text)
    IN  IF nextHeaderIndex = -1 THEN <<>>
        ELSE Slice(text, nextHeaderIndex, Len(text))

\* `${prefix}${lines.join("\n")}${suffix}`.trimEnd() + "\n"
NewSummary(text, specsMap) ==
    TrimEnd(SummaryPrefix(text) \o JoinLines(ApiLines(specsMap)) \o SummarySuffix(text))
    \o <<"\n">>

\* The pieces the texts of SUMMARY.md are made of.
DocumentPieces ==
    { ApiHeader, NextHeaderMark, <<"\n">>, <<" ">>, <<"x">> }

RECURSIVE Flatten(_)
Flatten(pieces) ==
    IF pieces = <<>> THEN <<>> ELSE Head(pieces) \o Flatten(Tail(pieces))

\* The texts SUMMARY.md may hold before the first run.
Documents ==
    { Flatten(pieces) : pieces \in UNION {[1..n -> DocumentPieces] : n \in 0..MaxPieces} }

InitSummary ==
    /\ summary \in Documents
    /\ summary0 = summary
    /\ written = <<>>
    /\ tocThrown = <<>>

\* updateSummary in the runs that do not call it.
IdleSummary ==
    /\ summary = <<>>
    /\ summary0 = <<>>
    /\ written = <<>>
    /\ tocThrown = <<>>

\* One run of updateSummary: it throws when the header is missing, else it
\* writes the file with its section rebuilt.
UpdateSummaryBody ==
    /\ IF SectionStart(summary) = -1
       THEN /\ tocThrown' = <<"Section ## API not found in SUMMARY.md">>
            /\ UNCHANGED <<summary, written>>
       ELSE /\ summary' = NewSummary(summary, openapiSpecs)
            /\ written' = Append(written, summary')
            /\ UNCHANGED tocThrown
    /\ UNCHANGED summary0

\* A run of updateSummary on the file the run before it left.
UpdateSummary ==
    /\ Len(written) < MaxRuns
    /\ tocThrown = <<>>
    /\ UpdateSummaryBody
    /\ UNCHANGED notTocVars

-----------------------------------------------------------------------------
(* extractFunctionSchema: the names of the request and response schemas.   *)

MMultiSig ==
    <<"m", "u", "l", "t", "i", "S", "i", "g">>

\* const endpoints = ["info", "exchange"] as const
EndpointList ==
    <<EpInfo, EpExchange>>

\* Mutant: no method is skipped.
SkippedMethodsNone ==
    {}

\* const skippedMethods = ["multiSig"]
SkippedMethods ==
    {MMultiSig}

\* getAllMethodsFromClient: the method names of the SDK client, in order.
AllMethodsFromClient(endpoint) ==
    IF endpoint = EpInfo THEN <<MAllMids, MMeta>> ELSE <<MMultiSig, MOrder>>

\* `/api/${endpoint}/${method}.ts`
FilePath(endpoint, method) ==
    <<"/", "a", "p", "i", "/">> \o endpoint \o <<"/">> \o method \o <<".", "t", "s">>

\* str.charAt(0).toUpperCase() + str.slice(1)
ReplaceFirstCharToUpperCase(str) ==
    IF str = <<>> THEN <<>> ELSE <<ToUpperCase(str[1])>> \o SubSeq(str, 2, Len(str))

RequestSuffix ==
    <<"R", "e", "q", "u", "e", "s", "t">>

ResponseSuffix ==
    <<"R", "e", "s", "p", "o", "n", "s", "e">>

SuccessResponseSuffix ==
    <<"S", "u", "c", "c", "e", "s", "s", "R", "e", "s", "p", "o", "n", "s", "e">>

PromiseName ==
    <<"P", "r", "o", "m", "i", "s", "e">>

\* Characters that "." of a regular expression does not match.
LineTerminators ==
    {"\n", "\r"}

\* name.replace(/(.*)SuccessResponse$/, "$1Response"): the prefix may be empty.
ReplaceSuccessResponseAny(name) ==
    IF EndsWith(name, SuccessResponseSuffix)
    THEN SubSeq(name, 1, Len(name) - Len(SuccessResponseSuffix)) \o ResponseSuffix
    ELSE name

\* name.replace(/(.+)SuccessResponse$/, "$1Response"): a name that ends with
\* the suffix, with at least one character that "." matches just before it,
\* has the suffix replaced; any other name is returned as it is.
ReplaceSuccessResponse(name) ==
    IF /\ EndsWith(name, SuccessResponseSuffix)
       /\ Len(name) > Len(SuccessResponseSuffix)
       /\ name[Len(name) - Len(SuccessResponseSuffix)] \notin LineTerminators
    THEN SubSeq(name, 1, Len(name) - Len(SuccessResponseSuffix)) \o ResponseSuffix
    ELSE name

\* A return type or a type parameter, as far as the code reads it: its kind,
\* its typeRef.typeName and its typeRef.typeParams. The kind "none" stands for
\* an absent return type.
TsType(kind, typeName, typeParams) ==
    [kind |-> kind, typeName |-> typeName, typeParams |-> typeParams]

NoType ==
    TsType("none", <<>>, <<>>)

\* A documentation node, as far as the code reads it.
DocNode(name, kind, returnType) ==
    [name |-> name, kind |-> kind, returnType |-> returnType, example |-> Undefined]

\* The return types a function of the SDK source may declare.
ReturnTypes(functionName) ==
    LET cap == ReplaceFirstCharToUpperCase(functionName)
    IN  { NoType,
          TsType("keyword", <<>>, <<>>),
          TsType("typeRef", <<"A", "r", "r", "a", "y">>, <<TsType("typeRef", cap \o ResponseSuffix, <<>>)>>),
          TsType("typeRef", PromiseName, <<>>),
          TsType("typeRef", PromiseName, <<TsType("keyword", <<>>, <<>>)>>),
          TsType("typeRef", PromiseName, <<TsType("typeRef", <<>>, <<>>)>>),
          TsType("typeRef", PromiseName,
                 <<TsType("typeRef", cap \o SuccessResponseSuffix, <<>>)>>) }

\* The nodes of the source file of one method that carry the method's name.
FunctionNamedNodes(functionName) ==
    { DocNode(functionName, "function", rt) : rt \in ReturnTypes(functionName) }
        \cup { DocNode(functionName, "variable", NoType) }

\* The type nodes the source file of one method may hold.
TypeNodes(endpoint, functionName) ==
    LET cap   == ReplaceFirstCharToUpperCase(functionName)
        epCap == ReplaceFirstCharToUpperCase(endpoint)
    IN  { DocNode(name, "typeAlias", NoType) :
            name \in { cap \o RequestSuffix,
                       cap \o epCap \o RequestSuffix,
                       cap \o ResponseSuffix,
                       cap \o epCap \o ResponseSuffix,
                       cap \o SuccessResponseSuffix } }

\* The nodes the source file of one method may hold.
NodeUniverse(endpoint, functionName) ==
    FunctionNamedNodes(functionName) \cup TypeNodes(endpoint, functionName)

\* The nodes of a set, each once, in some fixed order.
RECURSIVE NodeList(_)
NodeList(nodes) ==
    IF nodes = {} THEN <<>>
    ELSE LET node == CHOOSE n \in nodes : TRUE
         IN  <<node>> \o NodeList(nodes \ {node})

\* The symbol tables doc() may return for the source file of one method.
\* find() returns the first node that passes its test, and the tests are by
\* name, so the order of two nodes matters only when they carry the same
\* name: a table is any sequence of nodes of the function's name followed by
\* any set of type nodes.
SymbolTables(endpoint, functionName) ==
    { named \o NodeList(types) :
        named \in UNION { [1..n -> FunctionNamedNodes(functionName)] : n \in 0..MaxOverloads },
        types \in SUBSET TypeNodes(endpoint, functionName) }

\* Array.prototype.find by name: <<>> for undefined, else <<the first match>>.
FindByName(nodes, name) ==
    LET hits == {i \in 1..Len(nodes) : nodes[i].name = name}
    IN  IF hits = {} THEN <<>> ELSE <<nodes[CHOOSE i \in hits : \A j \in hits : i <= j]>>

\* docNodes.find((node) => node.name === functionName && node.kind === "function")
FindFunction(nodes, functionName) ==
    LET hits == {i \in 1..Len(nodes) :
                    nodes[i].name = functionName /\ nodes[i].kind = "function"}
    IN  IF hits = {} THEN <<>> ELSE <<nodes[CHOOSE i \in hits : \A j \in hits : i <= j]>>

\* Mutant: the second candidate is preferred to the first.
OrElseReversed(found, other) ==
    IF other # <<>> THEN other ELSE found

\* a || b on the results of find
OrElse(found, other) ==
    IF found # <<>> THEN found ELSE other

\* A result that lacks its request name.
ReturnOfResponseOnly(requestTypeName, responseTypeName, example) ==
    [ok |-> TRUE, request |-> <<>>, response |-> responseTypeName, example |-> example,
     message |-> "", filePath |-> <<>>]

\* return { request: requestTypeName, response: responseTypeName, example }
ReturnOf(requestTypeName, responseTypeName, example) ==
    [ok |-> TRUE, request |-> requestTypeName, response |-> responseTypeName,
     example |-> example, message |-> "", filePath |-> <<>>]

\* throw new Error(`... in ${filePath}`)
ThrowOf(message, filePath) ==
    [ok |-> FALSE, request |-> <<>>, response |-> <<>>, example |-> Undefined,
     message |-> message, filePath |-> filePath]

\* Mutant: the type name of the return type is taken without a lookup.
ResponseFromReturnTypeUnchecked(nodes, functionNode, filePath) ==
    LET returnType == functionNode.returnType
        typeParams == returnType.typeParams
    IN  IF returnType.kind # "typeRef" \/ returnType.typeName # PromiseName
        THEN [node |-> <<>>, error |-> <<ThrowOf("Function does not return Promise", filePath)>>]
        ELSE IF typeParams = <<>> \/ typeParams[1].kind # "typeRef"
        THEN [node |-> <<>>,
              error |-> <<ThrowOf("Cannot extract response type from Promise", filePath)>>]
        ELSE IF ~Truthy(typeParams[1].typeName)
        THEN [node |-> <<>>, error |-> <<ThrowOf("Response type name not found", filePath)>>]
        ELSE [node |-> <<DocNode(typeParams[1].typeName, "typeAlias", NoType)>>, error |-> <<>>]

\* The response node found through the declared return type of the function,
\* or the error raised on the way.
ResponseFromReturnType(nodes, functionNode, filePath) ==
    LET returnType == functionNode.returnType
        typeParams == returnType.typeParams
    IN  IF \/ returnType.kind = "none"
           \/ returnType.kind # "typeRef"
           \/ returnType.typeName # PromiseName
        THEN [node |-> <<>>, error |-> <<ThrowOf("Function does not return Promise", filePath)>>]
        ELSE IF typeParams = <<>> \/ typeParams[1].kind # "typeRef"
        THEN [node |-> <<>>,
              error |-> <<ThrowOf("Cannot extract response type from Promise", filePath)>>]
        ELSE IF ~Truthy(typeParams[1].typeName)
        THEN [node |-> <<>>, error |-> <<ThrowOf("Response type name not found", filePath)>>]
        ELSE [node |-> FindByName(nodes, typeParams[1].typeName), error |-> <<>>]

\* extractFunctionSchema, given the nodes that doc() returned.
ExtractFunctionSchema(nodes, filePath, functionName, endpoint) ==
    LET functionNode == FindFunction(nodes, functionName)
        functionNameUpperCase == ReplaceFirstCharToUpperCase(functionName)
        endpointUpperCase == ReplaceFirstCharToUpperCase(endpoint)
        requestNode ==
            OrElse(FindByName(nodes, functionNameUpperCase \o RequestSuffix),
                   FindByName(nodes, functionNameUpperCase \o endpointUpperCase \o RequestSuffix))
        namedResponse ==
            OrElse(FindByName(nodes, functionNameUpperCase \o ResponseSuffix),
                   FindByName(nodes, functionNameUpperCase \o endpointUpperCase \o ResponseSuffix))
        typed == ResponseFromReturnType(nodes, functionNode[1], filePath)
        responseNode == IF namedResponse # <<>> THEN namedResponse ELSE typed.node
    IN  IF functionNode = <<>> THEN ThrowOf("Function not found", filePath)
        ELSE IF requestNode = <<>> THEN ThrowOf("Request type name not found", filePath)
        ELSE IF namedResponse = <<>> /\ typed.error # <<>> THEN typed.error[1]
        ELSE IF responseNode = <<>> THEN ThrowOf("Response type name not found", filePath)
        ELSE ReturnOf(requestNode[1].name,
                      ReplaceSuccessResponse(responseNode[1].name),
                      functionNode[1].example)

-----------------------------------------------------------------------------
(* getAllSchemas: the loop over the endpoints and their methods.           *)

\* api[name]: the valibot schema the SDK exports under a name.
ApiLookup(endpoint, name) ==
    [endpoint |-> endpoint, export |-> name]

\* toJsonSchema(schema, toJsonConfig)
ToJsonSchema(valibotSchema) ==
    PlainSchema

CurrentEndpoint ==
    EndpointList[endpointIdx]

CurrentMethod ==
    AllMethodsFromClient(CurrentEndpoint)[methodIdx]

\* const results: AllSchemas = { info: {}, exchange: {} }
InitSchemas ==
    /\ schemasPc = "loop"
    /\ endpointIdx = 1
    /\ methodIdx = 1
    /\ docNodes = <<>>
    /\ functionInfo = <<>>
    /\ results = [e \in Endpoints |-> <<>>]
    /\ skipLog = <<>>
    /\ schemasThrown = <<>>

\* getAllSchemas in the runs that do not call it.
IdleSchemas ==
    /\ schemasPc = "idle"
    /\ endpointIdx = 0
    /\ methodIdx = 0
    /\ docNodes = <<>>
    /\ functionInfo = <<>>
    /\ results = <<>>
    /\ skipLog = <<>>
    /\ schemasThrown = <<>>

\* if (skippedMethods.includes(method)) { console.log(...); continue; }
SkipMethod ==
    /\ schemasPc = "loop"
    /\ endpointIdx <= Len(EndpointList)
    /\ methodIdx <= Len(AllMethodsFromClient(CurrentEndpoint))
    /\ CurrentMethod \in SkippedMethods
    /\ skipLog' = Append(skipLog, <<CurrentEndpoint, CurrentMethod>>)
    /\ methodIdx' = methodIdx + 1
    /\ UNCHANGED <<schemasPc, endpointIdx, docNodes, functionInfo, results, schemasThrown>>
    /\ UNCHANGED notSchemasVars

\* const functionInfo = await extractFunctionSchema(filePath, method, endpoint):
\* the source file documents to some symbol table; the call returns the two
\* names, or throws, and the throw leaves getAllSchemas.
CallExtractFunctionSchema ==
    /\ schemasPc = "loop"
    /\ endpointIdx <= Len(EndpointList)
    /\ methodIdx <= Len(AllMethodsFromClient(CurrentEndpoint))
    /\ CurrentMethod \notin SkippedMethods
    /\ \E nodes \in SymbolTables(CurrentEndpoint, CurrentMethod) :
          LET outcome == ExtractFunctionSchema(nodes, FilePath(CurrentEndpoint, CurrentMethod),
                                               CurrentMethod, CurrentEndpoint)
          IN  /\ docNodes' = nodes
              /\ IF outcome.ok
                 THEN /\ functionInfo' = <<outcome>>
                      /\ schemasPc' = "extracted"
                      /\ UNCHANGED schemasThrown
                 ELSE /\ schemasThrown' = <<outcome>>
                      /\ schemasPc' = "failed"
                      /\ UNCHANGED functionInfo
    /\ UNCHANGED <<endpointIdx, methodIdx, results, skipLog>>
    /\ UNCHANGED notSchemasVars

\* results[endpoint][method] = { request: RequestJSchema, response: ResponseJSchema }
RecordSchemas ==
    /\ schemasPc = "extracted"
    /\ results' = [results EXCEPT ![CurrentEndpoint] =
                      (CurrentMethod :>
                          [ request  |-> ToJsonSchema(ApiLookup(CurrentEndpoint,
                                                                functionInfo[1].request)),
                            response |-> ToJsonSchema(ApiLookup(CurrentEndpoint,
                                                                functionInfo[1].response)) ])
                      @@ @]
    /\ methodIdx' = methodIdx + 1
    /\ schemasPc' = "loop"
    /\ docNodes' = <<>>
    /\ functionInfo' = <<>>
    /\ UNCHANGED <<endpointIdx, skipLog, schemasThrown>>
    /\ UNCHANGED notSchemasVars

\* The inner loop is over: the outer loop moves to the next endpoint.
NextEndpoint ==
    /\ schemasPc = "loop"
    /\ endpointIdx <= Len(EndpointList)
    /\ methodIdx > Len(AllMethodsFromClient(CurrentEndpoint))
    /\ endpointIdx' = endpointIdx + 1
    /\ methodIdx' = 1
    /\ UNCHANGED <<schemasPc, docNodes, functionInfo, results, skipLog, schemasThrown>>
    /\ UNCHANGED notSchemasVars

\* return results
ReturnResults ==
    /\ schemasPc = "loop"
    /\ endpointIdx > Len(EndpointList)
    /\ schemasPc' = "done"
    /\ UNCHANGED <<endpointIdx, methodIdx, docNodes, functionInfo, results, skipLog,
                   schemasThrown>>
    /\ UNCHANGED notSchemasVars

NextSchemas ==
    \/ SkipMethod
    \/ CallExtractFunctionSchema
    \/ RecordSchemas
    \/ NextEndpoint
    \/ ReturnResults

-----------------------------------------------------------------------------
(* The response name normalization, applied to a name again and again.     *)

\* The pieces response type names are made of.
NameChunks ==
    { <<"O", "r", "d", "e", "r">>, <<"S", "u", "c", "c", "e", "s", "s">>, ResponseSuffix, RequestSuffix }

RECURSIVE Concat(_)
Concat(chunks) ==
    IF chunks = <<>> THEN <<>> ELSE Head(chunks) \o Concat(Tail(chunks))

\* The names a response node may carry.
ResponseNames ==
    { Concat(chunks) : chunks \in UNION {[1..n -> NameChunks] : n \in 0..MaxChunks} }

InitNormalize ==
    /\ responseName \in ResponseNames
    /\ normalized = <<>>

\* The normalization in the runs that do not exercise it on its own.
IdleNormalize ==
    /\ responseName = <<>>
    /\ normalized = <<>>

\* responseNode.name.replace(...), first on the name, then on its own result.
Normalize ==
    /\ Len(normalized) < 2
    /\ normalized' = Append(normalized,
                            ReplaceSuccessResponse(IF normalized = <<>> THEN responseName
                                                   ELSE normalized[Len(normalized)]))
    /\ UNCHANGED responseName
    /\ UNCHANGED notNormVars

-----------------------------------------------------------------------------
(* main: the run of the whole job.                                         *)

\* The texts SUMMARY.md may hold when the job runs: with the section, between
\* other text, and without it.
RunDocuments ==
    { <<"x">> \o ApiHeader \o NextHeaderMark \o <<"x">>, <<"x">> }

\* Mutant: main goes on after getAllSchemas threw.
SchemasReturnedOrThrew ==
    schemasPc \in {"done", "failed"}

\* const schemas = await getAllSchemas() has returned
SchemasReturned ==
    schemasPc = "done"

InitMain ==
    /\ mainPc = "start"
    /\ envSet \in BOOLEAN

\* if (!GITBOOK_TOKEN || !GITBOOK_ORG_ID) throw new Error(...)
MainMissingEnv ==
    /\ mainPc = "start"
    /\ ~envSet
    /\ mainPc' = "failed"
    /\ UNCHANGED <<envSet, pubVars, tocVars, schemasVars, normVars, asmVars>>

\* The call of getAllSchemas().
MainGetAllSchemas ==
    /\ mainPc = "start"
    /\ envSet
    /\ mainPc' = "schemas"
    /\ schemasPc' = "loop"
    /\ endpointIdx' = 1
    /\ methodIdx' = 1
    /\ results' = [e \in Endpoints |-> <<>>]
    /\ UNCHANGED <<docNodes, functionInfo, skipLog, schemasThrown>>
    /\ UNCHANGED <<envSet, pubVars, tocVars, normVars, asmVars>>

\* getAllSchemas threw: the Error leaves main.
MainSchemasThrew ==
    /\ mainPc = "schemas"
    /\ schemasPc = "failed"
    /\ mainPc' = "failed"
    /\ UNCHANGED <<envSet, pubVars, tocVars, schemasVars, normVars, asmVars>>

\* The call of jsonSchemasToOpenAPIs(schemas).
MainAssemble ==
    /\ mainPc = "schemas"
    /\ SchemasReturned
    /\ mainPc' = "assemble"
    /\ schemas' = results
    /\ asmPc' = "start"
    /\ UNCHANGED <<envSet, pubVars, tocVars, schemasVars, normVars>>

\* await updateSummary(openapiSpecs): the file is written, or the Error
\* leaves main.
MainUpdateSummary ==
    /\ mainPc = "assemble"
    /\ asmPc = "done"
    /\ UpdateSummaryBody
    /\ mainPc' = IF SectionStart(summary) = -1 THEN "failed" ELSE "summary"
    /\ UNCHANGED <<envSet, pubVars, schemasVars, normVars, asmVars>>

\* The call of updateGitBookOpenAPIs(openapiSpecs, ...): the host holds some
\* entries and lists them in some order.
MainPublish ==
    /\ mainPc = "summary"
    /\ mainPc' = "publish"
    /\ pc' = "start"
    /\ remote0' \in UNION {[slugs -> {StaleText}] : slugs \in SUBSET RemoteUniverse}
    /\ remote' = remote0'
    /\ listing' \in Listings(DOMAIN remote0')
    /\ UNCHANGED <<openapiSpecs, specs, allRemoteSpecs, nextPage, pageCount, responses,
                   delIdx, putIdx, calls, logged, thrown>>
    /\ UNCHANGED <<envSet, tocVars, schemasVars, normVars, asmVars>>

\* updateGitBookOpenAPIs returned: "Process completed successfully".
MainCompleted ==
    /\ mainPc = "publish"
    /\ pc = "done"
    /\ mainPc' = "done"
    /\ UNCHANGED <<envSet, pubVars, tocVars, schemasVars, normVars, asmVars>>

\* updateGitBookOpenAPIs threw: the Error leaves main.
MainPublishThrew ==
    /\ mainPc = "publish"
    /\ pc = "failed"
    /\ mainPc' = "failed"
    /\ UNCHANGED <<envSet, pubVars, tocVars, schemasVars, normVars, asmVars>>

-----------------------------------------------------------------------------
(* Specifications.                                                         *)

\* One run of the publisher against a host.
Init ==
    /\ InitPublisher
    /\ IdleSummary
    /\ IdleSchemas
    /\ IdleNormalize
    /\ IdleAssembler
    /\ IdleMain

Next ==
    NextPublisher

Spec ==
    Init /\ [][Next]_vars

\* One run of the publisher that is not suspended for ever: each awaited
\* fetch() settles and the loop goes on.
SpecFair ==
    Spec /\ WF_vars(Next)

\* One run of the publisher against a host that may list an entry twice.
InitDup ==
    /\ InitPublisherRepeating
    /\ IdleSummary
    /\ IdleSchemas
    /\ IdleNormalize
    /\ IdleAssembler
    /\ IdleMain

NextDup ==
    NextPublisher

SpecDup ==
    InitDup /\ [][NextDup]_vars

\* Runs of updateSummary on one file with one assembled map.
InitToc ==
    /\ openapiSpecs \in AssembledMaps
    /\ IdlePublisher
    /\ InitSummary
    /\ IdleSchemas
    /\ IdleNormalize
    /\ IdleAssembler
    /\ IdleMain

NextToc ==
    UpdateSummary

SpecToc ==
    InitToc /\ [][NextToc]_vars

\* One run of getAllSchemas against some SDK source.
InitRes ==
    /\ openapiSpecs = <<>>
    /\ IdlePublisher
    /\ IdleSummary
    /\ InitSchemas
    /\ IdleNormalize
    /\ IdleAssembler
    /\ IdleMain

NextRes ==
    NextSchemas

SpecRes ==
    InitRes /\ [][NextRes]_vars

\* The assembler on one map of schemas.
InitAsm ==
    /\ openapiSpecs = [e \in Endpoints |-> <<>>]
    /\ IdlePublisher
    /\ IdleSummary
    /\ IdleSchemas
    /\ IdleNormalize
    /\ InitAssembler
    /\ IdleMain

NextAsm ==
    JsonSchemasToOpenAPIs

SpecAsm ==
    InitAsm /\ [][NextAsm]_vars

\* One run of the whole job.
InitRun ==
    /\ openapiSpecs = <<>>
    /\ IdlePublisher
    /\ summary \in RunDocuments
    /\ summary0 = summary
    /\ written = <<>>
    /\ tocThrown = <<>>
    /\ IdleSchemas
    /\ IdleNormalize
    /\ IdleAssembler
    /\ InitMain

\* The map of a run holds the methods of the SDK clients, which are not all
\* skipped: the early return of the publisher (ReturnEmpty) is not among the
\* steps of a run.
NextRun ==
    \/ MainMissingEnv
    \/ MainGetAllSchemas
    \/ SkipMethod
    \/ CallExtractFunctionSchema
    \/ RecordSchemas
    \/ NextEndpoint
    \/ ReturnResults
    \/ MainSchemasThrew
    \/ MainAssemble
    \/ JsonSchemasToOpenAPIs
    \/ MainUpdateSummary
    \/ MainPublish
    \/ FetchList
    \/ FetchDelete
    \/ FetchPut
    \/ MainCompleted
    \/ MainPublishThrew

SpecRun ==
    InitRun /\ [][NextRun]_vars

\* The normalization applied twice to one name.
InitNorm ==
    /\ openapiSpecs = <<>>
    /\ IdlePublisher
    /\ IdleSummary
    /\ IdleSchemas
    /\ InitNormalize
    /\ IdleAssembler
    /\ IdleMain

NextNorm ==
    Normalize

SpecNorm ==
    InitNorm /\ [][NextNorm]_vars

-----------------------------------------------------------------------------
(* Publisher claims: vocabulary.                                           *)

\* A slug that carries the reserved prefix, read off its first characters.
IsHlSlug(slug) ==
    /\ Len(slug) >= 3
    /\ slug[1] = "h" /\ slug[2] = "l" /\ slug[3] = "-"

\* L: the slugs of the local specs.
LocalSet ==
    UNION { {Slug(e, m) : m \in DOMAIN openapiSpecs[e]} : e \in DOMAIN openapiSpecs }

\* R: the prefixed slugs the host held when the run started.
RemoteSet ==
    {s \in DOMAIN remote0 : IsHlSlug(s)}

\* The text the job holds for a local slug.
LocalText(slug) ==
    LET e == CHOOSE x \in DOMAIN openapiSpecs :
                 \E m \in DOMAIN openapiSpecs[x] : Slug(x, m) = slug
        m == CHOOSE y \in DOMAIN openapiSpecs[e] : Slug(e, y) = slug
    IN  Stringify(openapiSpecs[e][m])

\* The positions of the requests of one HTTP method.
CallsOf(method) ==
    {i \in 1..Len(calls) : calls[i].method = method}

\* The slugs one HTTP method was requested for.
SlugsOf(method) ==
    {calls[i].slug : i \in CallsOf(method)}

\* How many requests of one HTTP method named this slug.
CountOf(method, slug) ==
    Cardinality({i \in CallsOf(method) : calls[i].slug = slug})

\* A success status.
IsSuccess(status) ==
    status >= 200 /\ status < 300

\* The run has returned without throwing.
Returned ==
    pc = "done"

\* Reconciliation after a successful run.
Reconciled ==
    /\ SlugsOf("DELETE") = RemoteSet \ LocalSet
    /\ {s \in DOMAIN remote : IsHlSlug(s)} = LocalSet

\* C1 as stated: for every L and R, a run that returns has issued a DELETE for
\* exactly the slugs of R \ L and leaves the host's prefixed slugs equal to L.
C1_AnyLocalSet ==
    Returned => Reconciled

\* C1, amended: no run issues a DELETE outside R \ L; once the uploads have
\* begun the DELETEs issued are exactly R \ L; and a run over a non-empty
\* local set that returns leaves the host's prefixed slugs equal to L.
C1_Reconciliation ==
    /\ SlugsOf("DELETE") \subseteq RemoteSet \ LocalSet
    /\ CallsOf("PUT") # {} => SlugsOf("DELETE") = RemoteSet \ LocalSet
    /\ Returned /\ LocalSet # {} => Reconciled

C1_Witness ==
    /\ Returned
    /\ RemoteSet \ LocalSet # {}
    /\ LocalSet \ RemoteSet # {}
    /\ LocalSet \cap RemoteSet # {}
    /\ Reconciled

\* C2: with an empty local set the run issues no request at all, leaves the
\* host as it was, can only return, and does not throw.
C2_EmptyLocalSetIsSilent ==
    LocalSet = {} =>
        /\ calls = <<>>
        /\ remote = remote0
        /\ thrown = <<>>
        /\ pc \in {"start", "done"}
        /\ pc = "start" => ENABLED ReturnEmpty /\ ~ENABLED FetchList

C2_Witness ==
    /\ LocalSet = {}
    /\ Returned
    /\ RemoteSet # {}
    /\ calls = <<>>

\* The lifecycle of the entries after a successful run.
Lifecycle ==
    /\ \A s \in LocalSet \ RemoteSet :
          /\ CountOf("PUT", s) = 1
          /\ \E i \in 1..Len(logged) : logged[i] = <<"Uploaded", s>>
          /\ s \in DOMAIN remote /\ remote[s] = LocalText(s)
    /\ \A s \in LocalSet \cap RemoteSet :
          /\ CountOf("PUT", s) = 1
          /\ \E i \in 1..Len(logged) : logged[i] = <<"Updated", s>>
          /\ s \in DOMAIN remote /\ remote[s] = LocalText(s)
    /\ \A s \in RemoteSet \ LocalSet :
          /\ CountOf("DELETE", s) = 1
          /\ \E i \in 1..Len(logged) : logged[i] = <<"Deleted", s>>
          /\ s \notin DOMAIN remote
    /\ \A s \in DOMAIN remote0 \ (LocalSet \cup RemoteSet) :
          s \in DOMAIN remote /\ remote[s] = remote0[s]
    /\ SlugsOf("PUT") = LocalSet
    /\ SlugsOf("DELETE") = RemoteSet \ LocalSet
    /\ Len(logged) = Cardinality(LocalSet) + Cardinality(RemoteSet \ LocalSet)

\* The scenario of the claim: local {allMids, meta}, remote {allMids, obsoleteOp}.
ScenarioLocal ==
    {Slug(EpInfo, MAllMids), Slug(EpInfo, MMeta)}

ScenarioRemote ==
    {Slug(EpInfo, MAllMids), Slug(EpInfo, MObsoleteOp)}

ScenarioOutcome ==
    /\ Cardinality(CallsOf("DELETE")) = 1
    /\ Cardinality(CallsOf("PUT")) = 2
    /\ logged = << <<"Deleted", Slug(EpInfo, MObsoleteOp)>>,
                   <<"Updated", Slug(EpInfo, MAllMids)>>,
                   <<"Uploaded", Slug(EpInfo, MMeta)>> >>

\* C3 as stated: every successful run creates L \ R, updates L /\ R in place,
\* deletes R \ L and touches nothing else.
C3_AnySuccessfulRun ==
    Returned => Lifecycle

\* C3, amended: every successful run over a non-empty local set creates L \ R,
\* updates L /\ R in place, deletes R \ L and touches nothing else; in the
\* scenario it performs one deletion, one update and one creation.
C3_Lifecycle ==
    Returned /\ LocalSet # {} =>
        /\ Lifecycle
        /\ LocalSet = ScenarioLocal /\ RemoteSet = ScenarioRemote => ScenarioOutcome

C3_Witness ==
    /\ Returned
    /\ LocalSet = ScenarioLocal
    /\ RemoteSet = ScenarioRemote
    /\ ScenarioOutcome

\* C4: no DELETE and no PUT ever names a slug without the reserved prefix, and
\* the host's entries without the prefix stay as they were.
C4_NamespaceIsolation ==
    /\ \A i \in CallsOf("DELETE") \cup CallsOf("PUT") : IsHlSlug(calls[i].slug)
    /\ \A s \in DOMAIN remote0 :
          ~IsHlSlug(s) => s \in DOMAIN remote /\ remote[s] = remote0[s]

C4_Witness ==
    /\ Returned
    /\ Cardinality(CallsOf("GET")) >= 2
    /\ CallsOf("DELETE") # {}
    /\ Cardinality({s \in DOMAIN remote0 : ~IsHlSlug(s)}) = 2
    /\ \E i, j \in 1..Len(allRemoteSpecs) :
          i < j /\ ~IsHlSlug(allRemoteSpecs[i].slug) /\ ~IsHlSlug(allRemoteSpecs[j].slug)

\* The phase of a request: listing, then deletion, then upload.
PhaseOf(method) ==
    CASE method = "GET" -> 1
      [] method = "DELETE" -> 2
      [] method = "PUT" -> 3

\* C5: every GET precedes every DELETE, every DELETE precedes every PUT, and
\* once a PUT has been issued the host holds no orphan.
C5_PhaseOrdering ==
    /\ \A i, j \in 1..Len(calls) :
          i < j => PhaseOf(calls[i].method) <= PhaseOf(calls[j].method)
    /\ CallsOf("PUT") # {} => {s \in DOMAIN remote : IsHlSlug(s)} \ LocalSet = {}

C5_Witness ==
    /\ Cardinality(CallsOf("GET")) >= 2
    /\ Cardinality(CallsOf("DELETE")) >= 1
    /\ Cardinality(CallsOf("PUT")) >= 2
    /\ RemoteSet \cap LocalSet # {}

\* C6: a non-success response is the run's last: the run has thrown, with the
\* status and body of that response, and nothing was requested after it; a
\* failed DELETE leaves no PUT in the run.
C6_AbortOnFirstFailure ==
    /\ \A i \in 1..Len(calls) : ~IsSuccess(calls[i].status) => i = Len(calls)
    /\ pc = "failed" <=> (calls # <<>> /\ ~IsSuccess(calls[Len(calls)].status))
    /\ pc = "failed" <=> thrown # <<>>
    /\ pc = "failed" =>
          /\ thrown[1].status = calls[Len(calls)].status
          /\ thrown[1].body = <<"body", calls[Len(calls)].status>>
          /\ thrown[1].slug = calls[Len(calls)].slug
          /\ ~ENABLED Next
    /\ (\E i \in CallsOf("DELETE") : ~IsSuccess(calls[i].status)) => CallsOf("PUT") = {}

C6_Witness ==
    /\ pc = "failed"
    /\ Len(calls) >= 3
    /\ calls[Len(calls)].method = "DELETE"
    /\ Cardinality(RemoteSet \ LocalSet) = 1
    /\ CallsOf("PUT") = {}

-----------------------------------------------------------------------------
(* Table-of-contents claims.                                               *)

\* The 0-based position of the first occurrence of p in text at or after
\* `from`; -1 when there is none.
FirstOccurrence(text, p, from) ==
    LET at == {i \in from..(Len(text) - Len(p)) :
                  p = <<>> \/ (text[i + 1] = p[1] /\ SubSeq(text, i + 1, i + Len(p)) = p)}
    IN  IF at = {} THEN -1 ELSE CHOOSE i \in at : \A j \in at : i <= j

\* The text before the "## API" header of a document that has one.
TextBeforeHeader(text) ==
    SubSeq(text, 1, FirstOccurrence(text, ApiHeader, 0))

\* Where the next header starts, after the "## API" header; -1 without one.
NextHeaderAt(text) ==
    FirstOccurrence(text, NextHeaderMark, FirstOccurrence(text, ApiHeader, 0) + 6)

\* The text from the next header to the end of the document; empty without one.
TextFromNextHeader(text) ==
    LET at == NextHeaderAt(text)
    IN  IF at = -1 THEN <<>> ELSE SubSeq(text, at + 1, Len(text))

\* A text without its trailing spaces, tabs and line breaks.
WithoutTrailingSpace(text) ==
    LET cuts == {k \in 0..Len(text) : \A i \in (k + 1)..Len(text) : text[i] \in {" ", "\n", "\t"}}
    IN  SubSeq(text, 1, CHOOSE k \in cuts : \A j \in cuts : k <= j)

\* The document a run of updateSummary read.
RunInput(i) ==
    IF i = 1 THEN summary0 ELSE written[i - 1]

\* Every run after the first wrote what the run before it wrote.
RunsAgree ==
    \A i \in 2..Len(written) : written[i] = written[i - 1]

\* The next header of the document, if it has one, is followed by some
\* character that is not white space.
NextHeaderHasText(text) ==
    LET at == NextHeaderAt(text)
    IN  \/ at = -1
        \/ \E i \in (at + 5)..Len(text) : text[i] \notin {" ", "\n", "\t"}

\* C7 as stated: for every document with the header, a second run of
\* updateSummary with the same map writes the document the first run wrote.
C7_AnyDocument ==
    RunsAgree

\* C7, amended: for every document with the header whose next "\n## " header,
\* if any, is followed by a character that is not white space, every further
\* run of updateSummary with the same map writes the document the first wrote.
C7_Idempotent ==
    NextHeaderHasText(summary0) => RunsAgree

C7_Witness ==
    /\ Len(written) >= 2
    /\ written[2] = written[1]
    /\ written[1] # summary0
    /\ NextHeaderAt(summary0) # -1
    /\ TextBeforeHeader(summary0) # <<>>
    /\ \E e \in DOMAIN openapiSpecs : DOMAIN openapiSpecs[e] # {}

\* The prefix of the document at the start of the result, and the text from
\* the next header somewhere after it, both as they were.
KeptAsIs(in, out) ==
    /\ SubSeq(out, 1, Len(TextBeforeHeader(in))) = TextBeforeHeader(in)
    /\ FirstOccurrence(out, TextFromNextHeader(in), Len(TextBeforeHeader(in))) # -1

\* The result is the prefix, the section, and the text from the next header
\* with its trailing white space replaced by one line break.
Spliced(in, out, section) ==
    LET before == TextBeforeHeader(in)
        after  == TextFromNextHeader(in)
        tail   == IF after = <<>> THEN <<>> ELSE WithoutTrailingSpace(after)
        middle == IF after = <<>> THEN WithoutTrailingSpace(section) ELSE section
    IN  /\ Len(out) = Len(before) + Len(middle) + Len(tail) + 1
        /\ SubSeq(out, 1, Len(before)) = before
        /\ SubSeq(out, Len(before) + 1, Len(before) + Len(middle)) = middle
        /\ SubSeq(out, Len(before) + Len(middle) + 1, Len(out) - 1) = tail
        /\ out[Len(out)] = "\n"

\* C8 as stated: in every written result the text before the header and the
\* text from the next header to the end of the document appear unchanged.
C8_ByteForByte ==
    \A i \in 1..Len(written) : KeptAsIs(RunInput(i), written[i])

\* C8, amended: the text before the header is unchanged, the text from the
\* next header to the end is unchanged but for its trailing white space, which
\* becomes one line break, and what lies between them is the new section.
C8_Splice ==
    \A i \in 1..Len(written) :
        Spliced(RunInput(i), written[i], JoinLines(ApiLines(openapiSpecs)))

C8_Witness ==
    /\ Len(written) >= 1
    /\ TextBeforeHeader(summary0) # <<>>
    /\ TextFromNextHeader(summary0) # <<>>
    /\ ~KeptAsIs(summary0, written[1])
    /\ Spliced(summary0, written[1], JoinLines(ApiLines(openapiSpecs)))
    /\ \E e \in DOMAIN openapiSpecs : DOMAIN openapiSpecs[e] # {}

-----------------------------------------------------------------------------
(* Normalization claims.                                                   *)

\* The name ends with "SuccessSuccessResponse" and has something before it.
HasDoubleSuccess(name) ==
    LET tail == <<"S", "u", "c", "c", "e", "s", "s", "S", "u", "c", "c", "e", "s", "s", "R", "e", "s", "p", "o", "n", "s", "e">>
    IN  /\ Len(name) > Len(tail)
        /\ SubSeq(name, Len(name) - Len(tail) + 1, Len(name)) = tail

\* Normalizing the normalized name gave the normalized name.
SecondIsNoOp ==
    Len(normalized) = 2 => normalized[2] = normalized[1]

\* C9 as stated: for every response type name n,
\* normalize(normalize(n)) = normalize(n).
C9_AnyName ==
    SecondIsNoOp

\* C9, amended: for every response type name n that is not some non-empty
\* text followed by "SuccessSuccessResponse",
\* normalize(normalize(n)) = normalize(n).
C9_Idempotent ==
    ~HasDoubleSuccess(responseName) => SecondIsNoOp

C9_Witness ==
    /\ Len(normalized) = 2
    /\ normalized[1] # responseName
    /\ normalized[2] = normalized[1]
    /\ normalized[1] = <<"O", "r", "d", "e", "r", "R", "e", "s", "p", "o", "n", "s", "e">>

-----------------------------------------------------------------------------
(* Resolver claims.                                                        *)

\* The operation the loop of getAllSchemas is at has an entry in results.
CurrentIsRecorded ==
    CurrentMethod \in DOMAIN results[CurrentEndpoint]

\* C10: a call of extractFunctionSchema for an operation that is not skipped
\* either returns a result that carries a non-empty request name and a
\* non-empty response name, or throws; after a throw there is no result, the
\* operation has no entry in results, and getAllSchemas takes no further step.
C10_AllOrNothing ==
    /\ \A i \in 1..Len(functionInfo) :
          /\ functionInfo[i].request # <<>>
          /\ functionInfo[i].response # <<>>
    /\ Len(functionInfo) <= 1
    /\ schemasPc = "extracted" =>
          /\ Len(functionInfo) = 1
          /\ schemasThrown = <<>>
          /\ CurrentMethod \notin SkippedMethods
    /\ schemasThrown # <<>> =>
          /\ functionInfo = <<>>
          /\ CurrentMethod \notin SkippedMethods
          /\ ~CurrentIsRecorded
          /\ schemasPc = "failed"
          /\ ~ENABLED NextRes
    /\ \A e \in DOMAIN results : \A m \in DOMAIN results[e] : m \notin SkippedMethods

C10_Witness ==
    /\ schemasThrown # <<>>
    /\ schemasThrown[1].message = "Cannot extract response type from Promise"
    /\ CurrentEndpoint = EpExchange
    /\ ~CurrentIsRecorded
    /\ DOMAIN results[EpInfo] = {MAllMids, MMeta}
    /\ skipLog # <<>>

-----------------------------------------------------------------------------
(* Resolver claims: the order of the candidates.                           *)

\* The symbol table of the current call holds a node of that name.
TableHas(name) ==
    \E i \in 1..Len(docNodes) : docNodes[i].name = name

\* The table holds a function node for the current method.
TableHasFunction ==
    \E i \in 1..Len(docNodes) :
        docNodes[i].name = CurrentMethod /\ docNodes[i].kind = "function"

\* The four named candidates of the current call.
DirectRequest ==
    ReplaceFirstCharToUpperCase(CurrentMethod) \o <<"R", "e", "q", "u", "e", "s", "t">>

EndpointRequest ==
    ReplaceFirstCharToUpperCase(CurrentMethod)
        \o ReplaceFirstCharToUpperCase(CurrentEndpoint) \o <<"R", "e", "q", "u", "e", "s", "t">>

DirectResponse ==
    ReplaceFirstCharToUpperCase(CurrentMethod) \o <<"R", "e", "s", "p", "o", "n", "s", "e">>

EndpointResponse ==
    ReplaceFirstCharToUpperCase(CurrentMethod)
        \o ReplaceFirstCharToUpperCase(CurrentEndpoint) \o <<"R", "e", "s", "p", "o", "n", "s", "e">>

\* The errors raised while the declared return type is inspected.
InvalidReturnTypeMessages ==
    {"Function does not return Promise", "Cannot extract response type from Promise"}

\* C11: the candidates are tried in order and the first match wins. A returned
\* request name is '{Cap(op)}Request' if the table holds it, else
\* '{Cap(op)}{Cap(endpoint)}Request'; with neither the resolver fails. A
\* returned response name is '{Cap(op)}Response' if the table holds it, else
\* '{Cap(op)}{Cap(endpoint)}Response' if the table holds that; the return type
\* decides the name, or raises its error, only when both are absent.
C11_FallbackOrder ==
    /\ schemasPc = "extracted" =>
          /\ TableHas(DirectRequest) => functionInfo[1].request = DirectRequest
          /\ ~TableHas(DirectRequest) =>
                TableHas(EndpointRequest) /\ functionInfo[1].request = EndpointRequest
          /\ TableHas(DirectResponse) => functionInfo[1].response = DirectResponse
          /\ ~TableHas(DirectResponse) /\ TableHas(EndpointResponse) =>
                functionInfo[1].response = EndpointResponse
          /\ functionInfo[1].response \notin {DirectResponse, EndpointResponse} =>
                ~TableHas(DirectResponse) /\ ~TableHas(EndpointResponse)
    /\ schemasPc = "failed" =>
          /\ ~TableHas(DirectRequest) /\ ~TableHas(EndpointRequest) /\ TableHasFunction =>
                schemasThrown[1].message = "Request type name not found"
          /\ schemasThrown[1].message \in InvalidReturnTypeMessages =>
                ~TableHas(DirectResponse) /\ ~TableHas(EndpointResponse)
    /\ schemasPc \in {"extracted", "failed"} /\ TableHasFunction =>
          (schemasPc = "failed" /\ schemasThrown[1].message = "Request type name not found")
              <=> (~TableHas(DirectRequest) /\ ~TableHas(EndpointRequest))

\* The example: 'order' in 'exchange' without a direct match.
C11_Witness ==
    /\ schemasPc = "extracted"
    /\ CurrentMethod = MOrder /\ CurrentEndpoint = EpExchange
    /\ ~TableHas(DirectRequest) /\ ~TableHas(DirectResponse)
    /\ functionInfo[1].request = <<"O", "r", "d", "e", "r", "E", "x", "c", "h", "a", "n", "g", "e", "R", "e", "q", "u", "e", "s", "t">>
    /\ functionInfo[1].response = <<"O", "r", "d", "e", "r", "E", "x", "c", "h", "a", "n", "g", "e", "R", "e", "s", "p", "o", "n", "s", "e">>

-----------------------------------------------------------------------------
(* Assembler claims.                                                       *)

\* The response codes of the document stored for a method of an endpoint.
ResponseCodes(endpoint, method) ==
    DOMAIN openapiSpecs[endpoint][method].paths[<<"/">> \o endpoint].post.responses

\* C12: every document assembled for "info" holds a "500" response next to
\* "200" and "422", and no document assembled for "exchange" holds a "500",
\* for every method and every pair of schemas.
C12_ResponseCodeAsymmetry ==
    asmPc = "done" =>
        /\ DOMAIN openapiSpecs[<<"i", "n", "f", "o">>] = DOMAIN schemas[<<"i", "n", "f", "o">>]
        /\ \A m \in DOMAIN openapiSpecs[<<"i", "n", "f", "o">>] :
              ResponseCodes(<<"i", "n", "f", "o">>, m) = {"200", "422", "500"}
        /\ \A m \in DOMAIN openapiSpecs[<<"e", "x", "c", "h", "a", "n", "g", "e">>] :
              /\ "500" \notin ResponseCodes(<<"e", "x", "c", "h", "a", "n", "g", "e">>, m)
              /\ {"200", "422"} \subseteq ResponseCodes(<<"e", "x", "c", "h", "a", "n", "g", "e">>, m)

C12_Witness ==
    /\ asmPc = "done"
    /\ DOMAIN openapiSpecs[<<"i", "n", "f", "o">>] # {}
    /\ DOMAIN openapiSpecs[<<"e", "x", "c", "h", "a", "n", "g", "e">>] # {}
    /\ \E m \in DOMAIN schemas[<<"e", "x", "c", "h", "a", "n", "g", "e">>] :
          schemas[<<"e", "x", "c", "h", "a", "n", "g", "e">>][m].response.description = <<"d">>

-----------------------------------------------------------------------------
(* Run claims.                                                             *)

\* The operations of an endpoint that are not skipped.
Operations(endpoint) ==
    {AllMethodsFromClient(endpoint)[i] : i \in 1..Len(AllMethodsFromClient(endpoint))}
        \ {<<"m", "u", "l", "t", "i", "S", "i", "g">>}

\* Resolution and conversion succeeded for every operation that is not skipped.
AllResolved ==
    /\ schemasThrown = <<>>
    /\ \A e \in Endpoints : DOMAIN results[e] = Operations(e)

\* The assembler returned a document for every operation that is not skipped.
AllAssembled ==
    /\ asmPc = "done"
    /\ \A e \in Endpoints : DOMAIN openapiSpecs[e] = Operations(e)

\* C13: SUMMARY.md is written and a remote request is made only after the
\* resolution succeeded for every operation that is not skipped, of both
\* endpoints, and the documents were assembled; when the resolution of one
\* operation fails, no file is written, no request is made, and the run ends.
C13_PhasesGated ==
    /\ (written # <<>> \/ summary # summary0 \/ calls # <<>>) => AllResolved /\ AllAssembled
    /\ schemasThrown # <<>> =>
          /\ written = <<>> /\ summary = summary0 /\ calls = <<>>
          /\ asmPc = "idle" /\ pc = "idle"
          /\ mainPc \in {"schemas", "failed"}
          /\ mainPc = "failed" => ~ENABLED NextRun

C13_Witness ==
    /\ mainPc = "done"
    /\ written # <<>>
    /\ \E i \in 1..Len(calls) : calls[i].method = "DELETE"
    /\ \E i \in 1..Len(calls) : calls[i].method = "PUT"
    /\ skipLog # <<>>

-----------------------------------------------------------------------------
(* Publisher claims: the pages of the listing.                             *)

\* The positions in calls of the listing requests, in order.
ListingCalls ==
    SelectSeq([i \in 1..Len(calls) |-> i], LAMBDA i : calls[i].method = "GET")

\* The cursor the k-th listing request carried, if any.
PageSent(k) ==
    calls[ListingCalls[k]].page[2]

\* The slugs of the items of all the responses received.
RECURSIVE ItemsUpTo(_)
ItemsUpTo(k) ==
    IF k = 0 THEN <<>> ELSE ItemsUpTo(k - 1) \o responses[k].items

\* The listing loop is over and has not thrown.
Listed ==
    pc \in {"delete", "put", "done"} /\ calls # <<>>

Paginated ==
    /\ \A k \in 1..Len(ListingCalls) :
          /\ k = 1 => PageSent(k) = <<"undefined">>
          /\ k > 1 => /\ k - 1 <= Len(responses)
                      /\ PageSent(k) = responses[k - 1].next
                      /\ PageSent(k) # <<"undefined">>
    /\ Len(responses) <= Len(ListingCalls)
    /\ \A k \in 1..Len(responses) :
          responses[k].next = <<"undefined">> =>
              k = Len(responses) /\ Len(ListingCalls) = k /\ pc \notin {"start", "list"}
    /\ Listed =>
          /\ responses # <<>>
          /\ responses[Len(responses)].next = <<"undefined">>
          /\ allRemoteSpecs = ItemsUpTo(Len(responses))
          /\ {allRemoteSpecs[i].slug : i \in 1..Len(allRemoteSpecs)} = DOMAIN remote0
          /\ Len(allRemoteSpecs) = Len(listing)

\* C14: the first GET carries no page parameter and each later GET carries
\* the cursor of the response before it; the loop stops at the first response
\* without a cursor; the items the publisher then holds are those of all the
\* pages, which are all the entries of the host; and the loop ends.
C14_Pagination ==
    []Paginated /\ <>(pc \notin {"start", "list"})

C14_Witness ==
    /\ Listed
    /\ Len(responses) >= 3
    /\ \A k \in 1..Len(responses) : responses[k].items # <<>>
    /\ pc = "done"

\* The slug of an operation, written out.
SlugOf(endpoint, method) ==
    <<"h", "l", "-">> \o endpoint \o <<"-">> \o method

\* The slugs of the operations that are not skipped, and of those that are.
OperationSlugs ==
    UNION { {SlugOf(e, m) : m \in Operations(e)} : e \in Endpoints }

SkippedSlugs ==
    { SlugOf(e, <<"m", "u", "l", "t", "i", "S", "i", "g">>) : e \in Endpoints }

\* The table of contents the run wrote refers to the slug.
TocRefersTo(slug) ==
    \E i \in 1..Len(written) :
        FirstOccurrence(written[i], <<"s", "p", "e", "c", ":", " ">> \o slug \o <<"\n">>, 0) # -1

\* C15: in every successful run the schema map of each endpoint has the
\* enumerated methods but 'multiSig' for keys and the assembled map has the
\* same keys; the table of contents refers to every operation that is not
\* skipped and to no skipped one; exactly one PUT is issued for each operation
\* that is not skipped; and no PUT is ever issued for a skipped one.
C15_SkipListEndToEnd ==
    /\ mainPc = "done" =>
          /\ \A e \in Endpoints :
                /\ DOMAIN results[e] = Operations(e)
                /\ DOMAIN openapiSpecs[e] = DOMAIN results[e]
          /\ \A slug \in OperationSlugs : TocRefersTo(slug)
          /\ \A slug \in SkippedSlugs : ~TocRefersTo(slug)
          /\ SlugsOf("PUT") = OperationSlugs
          /\ \A slug \in OperationSlugs : CountOf("PUT", slug) = 1
    /\ \A i \in 1..Len(calls) : calls[i].method = "PUT" => calls[i].slug \notin SkippedSlugs
    /\ \A e \in DOMAIN results : <<"m", "u", "l", "t", "i", "S", "i", "g">> \notin DOMAIN results[e]

C15_Witness ==
    /\ mainPc = "done"
    /\ skipLog = << <<EpExchange, MMultiSig>> >>
    /\ Cardinality(CallsOf("PUT")) = 3
    /\ TocRefersTo(SlugOf(EpExchange, MOrder))

-----------------------------------------------------------------------------
(* Publisher claims: a listing with repeated entries.                      *)

\* C16: in a run of the publisher, whatever pages the host returns, with the
\* same slug listed more than once or not, at most one DELETE is issued for
\* each slug.
C16_AtMostOneDelete ==
    \A slug \in DOMAIN remote0 : CountOf("DELETE", slug) <= 1

-----------------------------------------------------------------------------
(* Resolver claims: the names returned and the symbol table.               *)

\* The name with its trailing "Response" written as "SuccessResponse".
SuccessFormOf(name) ==
    SubSeq(name, 1, Len(name) - 8) \o <<"S", "u", "c", "c", "e", "s", "s", "R", "e", "s", "p", "o", "n", "s", "e">>

\* The returned response name ends with "Response".
EndsWithResponse(name) ==
    /\ Len(name) >= 8
    /\ SubSeq(name, Len(name) - 7, Len(name)) = <<"R", "e", "s", "p", "o", "n", "s", "e">>

=============================================================================
